---- MODULE Spec2Model ----
(***************************************************************************)
(* HotMeals / BiteBot: the session-scoped booking core.                    *)
(*                                                                         *)
(* State: the process-wide tool-context store (src/tools.py), the          *)
(* ContextVar binding of every request-handler thread, the Flask session   *)
(* of every browser session (src/app.py), the request each handler thread  *)
(* is serving, and the tool calls that the language-model loop has         *)
(* dispatched to worker threads.  The language model, the restaurant       *)
(* database and the date parser are external: the model draws their        *)
(* answers from small sets.                                                *)
(***************************************************************************)
EXTENDS Integers, Sequences, FiniteSets, TLC

(***************************************************************************)
(* Bounds of the model.                                                    *)
(***************************************************************************)
MaxCalls == 3      \* tool calls made in one behaviour of one session
MaxSharedCalls == 2   \* the same, when two sessions share the service
MaxDay   == 1      \* the clock advances from day 0 up to this day

None == "None"     \* Python's None where the other values are strings
NoText == <<>>     \* Python's None (or "") where the other values are text
NoDay == 0 - 1        \* Python's None where the other values are day numbers
NoMinutes == 0 - 1    \* a ValueError where the other values are minutes

Sessions  == {"A", "B"}          \* browser sessions (Flask session cookies)
Workers   == {"w1", "w2"}        \* request-handler threads of the server
Slots     == {1, 2}              \* tool worker threads of one turn
PartySizes == {2, 4}               \* party_size passed to make_reservation_tool
DefaultPartySize == 2              \* party_size: int = 2
ReservationIds == {"0a1b2c3d", "4e5f6071"}

\* session['thread_id'] as set by index()
InitialThread(s) == IF s = "A" THEN "tA" ELSE "tB"
\* str(uuid.uuid4()) at a reset: a thread id no session has used before
ResetThread(s) == IF s = "A" THEN "tA2" ELSE "tB2"
ThreadIds == {InitialThread(s) : s \in Sessions}
                 \cup {ResetThread(s) : s \in Sessions}

(***************************************************************************)
(* Text.  A Python str is a sequence of one-character strings.             *)
(***************************************************************************)
Digits == <<"0", "1", "2", "3", "4", "5", "6", "7", "8", "9">>

IsDigit(c) == \E i \in 1..10 : Digits[i] = c

DigitVal(c) == (CHOOSE i \in 1..10 : Digits[i] = c) - 1

\* str.split(sep) for a one-character separator
RECURSIVE split(_, _)
split(s, sep) ==
    IF \A i \in 1..Len(s) : s[i] # sep
    THEN <<s>>
    ELSE LET i == CHOOSE k \in 1..Len(s) :
                      s[k] = sep /\ \A j \in 1..(k - 1) : s[j] # sep
         IN <<SubSeq(s, 1, i - 1)>> \o split(SubSeq(s, i + 1, Len(s)), sep)

\* int(s) raises ValueError unless s is a non-empty run of digits
IntOk(s) == Len(s) > 0 /\ \A i \in 1..Len(s) : IsDigit(s[i])

RECURSIVE int(_)
int(s) == IF Len(s) = 0 THEN 0
          ELSE 10 * int(SubSeq(s, 1, Len(s) - 1)) + DigitVal(s[Len(s)])

\* str(n) for n >= 0
RECURSIVE str(_)
str(n) == IF n < 10 THEN <<Digits[n + 1]>>
          ELSE str(n \div 10) \o <<Digits[(n % 10) + 1]>>

\* f"{n:02d}"
fmt02d(n) == IF n < 10 THEN <<"0">> \o str(n) ELSE str(n)

\* strftime('%H:%M') and f"{hour:02d}:{minute:02d}"
fmtHM(h, m) == fmt02d(h) \o <<":">> \o fmt02d(m)

(***************************************************************************)
(* The clock.  Day d is the calendar date 2026-01-(05+d); day 0 is a       *)
(* Monday.                                                                 *)
(***************************************************************************)
DayNames == <<"Monday", "Tuesday", "Wednesday", "Thursday", "Friday",
              "Saturday", "Sunday">>

\* strftime("%A")
day_name(d) == DayNames[(d % 7) + 1]

\* strftime("%Y-%m-%d")
strftime_date(d) ==
    <<"2", "0", "2", "6", "-", "0", "1", "-">> \o fmt02d(d + 5)

\* datetime.strptime(s, '%Y-%m-%d'), as the day number
strptime_date(s) == int(split(s, "-")[3]) - 5

\* wall-clock times of day at which a tool may run, <<hour, minute>>
ClockTimes == {<<19, 0>>, <<3, 0>>}

(***************************************************************************)
(* The restaurant lookup service (read-only).                              *)
(***************************************************************************)
\* an hours string of the dataset, "H:M-H:M"
HoursStr(oh, om, ch, cm) ==
    str(oh) \o <<":">> \o str(om) \o <<"-">> \o str(ch) \o <<":">> \o str(cm)

Restaurants == <<
    [name |-> "Vetri Cucina", business_id |-> "b1",
     attributes |-> [RestaurantsReservations |-> "True"],
     hours |-> [Monday    |-> HoursStr(17, 0, 22, 0),
                Tuesday   |-> HoursStr(17, 0, 22, 0),
                Wednesday |-> HoursStr(0, 0, 0, 0)]],
    [name |-> "Night Owl", business_id |-> "b2",
     attributes |-> [RestaurantsReservations |-> "True"],
     hours |-> [Monday  |-> HoursStr(22, 0, 2, 0),
                Tuesday |-> <<"2", "2", ":", "0">>]],
    [name |-> "Corner Deli", business_id |-> "b3",
     attributes |-> [RestaurantsReservations |-> "False"],
     hours |-> [Monday |-> HoursStr(11, 0, 22, 0)]],
    [name |-> "Food Cart", business_id |-> "b4",
     attributes |-> [a \in {} |-> ""],
     hours |-> [Monday |-> HoursStr(11, 0, 22, 0)]] >>

\* restaurant names a tool call may pass; the last one matches no row
NameArgs == {"Vetri Cucina", "Night Owl", "Corner Deli", "Food Cart", "Nowhere"}

\* SELECT ... WHERE LOWER(name) LIKE ... LIMIT 1: the first matching row,
\* as <<row>>, or <<>> for None
get_restaurant_by_name(name) ==
    IF \E i \in 1..Len(Restaurants) : Restaurants[i].name = name
    THEN << Restaurants[CHOOSE i \in 1..Len(Restaurants) :
                        /\ Restaurants[i].name = name
                        /\ \A j \in 1..(i - 1) : Restaurants[j].name # name] >>
    ELSE <<>>

\* a test that takes every restaurant not marked 'False' to accept
accepts_reservations_unless_false(restaurant) ==
    ~ /\ "RestaurantsReservations" \in DOMAIN restaurant.attributes
      /\ restaurant.attributes["RestaurantsReservations"] = "False"

\* restaurant['attributes'].get('RestaurantsReservations') == 'True'
accepts_reservations(restaurant) ==
    /\ DOMAIN restaurant.attributes # {}
    /\ "RestaurantsReservations" \in DOMAIN restaurant.attributes
    /\ restaurant.attributes["RestaurantsReservations"] = "True"

(***************************************************************************)
(* Date and time expressions (the dateparser library is external: its      *)
(* answers are tabulated for the expressions the model uses).              *)
(***************************************************************************)
DateArgs == {None, "today", "tomorrow", "2026-01-05", "someday"}

\* dateparser.parse(date, RELATIVE_BASE = now, PREFER_DATES_FROM = future)
dateparser_date(date, today) ==
    CASE date = "today"      -> today
      [] date = "tomorrow"   -> today + 1
      [] date = "2026-01-05" -> 0
      [] OTHER               -> NoDay

TimeArgs == {NoText, <<"7", "p", "m">>, <<"3", "a", "m">>,
             <<"s", "o", "o", "n">>}

\* dateparser.parse(f"{date} {time}"): <<hour, minute>>, or <<>> for None
dateparser_time(time) ==
    CASE time = <<"7", "p", "m">>           -> <<19, 0>>
      [] time = <<"3", "a", "m">>           -> <<3, 0>>
      [] time = <<"1", "8", ":", "3", "0">> -> <<18, 30>>
      [] OTHER                              -> <<>>

\* re.search(r'(\d{1,2}):?(\d{2})?\s*(am|pm)?', time.lower()) and the
\* arithmetic on its groups: the "HH:MM" text, or NoText when nothing matches
regex_time(time) ==
    IF \A i \in 1..Len(time) : ~IsDigit(time[i])
    THEN NoText
    ELSE
      LET at(i)  == IF i <= Len(time) THEN time[i] ELSE ""
          i1     == CHOOSE k \in 1..Len(time) :
                        IsDigit(time[k]) /\ \A j \in 1..(k - 1) : ~IsDigit(time[j])
          e1     == IF IsDigit(at(i1 + 1)) THEN i1 + 1 ELSE i1
          g1     == SubSeq(time, i1, e1)
          p2     == IF at(e1 + 1) = ":" THEN e1 + 2 ELSE e1 + 1
          has2   == IsDigit(at(p2)) /\ IsDigit(at(p2 + 1))
          g2     == IF has2 THEN SubSeq(time, p2, p2 + 1) ELSE <<"0">>
          p3     == IF has2 THEN p2 + 2 ELSE p2
          RECURSIVE skipws(_)
          skipws(i) == IF at(i) = " " THEN skipws(i + 1) ELSE i
          p4     == skipws(p3)
          g3     == IF at(p4) \in {"a", "p"} /\ at(p4 + 1) = "m"
                    THEN at(p4) ELSE None
          hour0  == int(g1)
          minute == int(g2)
          hour   == IF g3 = "p" /\ hour0 # 12 THEN hour0 + 12
                    ELSE IF g3 = "a" /\ hour0 = 12 THEN 0 ELSE hour0
      IN fmtHM(hour, minute)

\* lines 279-300: the reservation time as "HH:MM" text, or NoText
parse_time(time, clock) ==
    IF time # NoText
    THEN IF dateparser_time(time) # <<>>
         THEN fmtHM(dateparser_time(time)[1], dateparser_time(time)[2])
         ELSE regex_time(time)
    ELSE fmtHM(clock[1], clock[2])

(***************************************************************************)
(* The hours check inlined in check_availability_tool.                     *)
(***************************************************************************)
\* "H:M" -> minutes since midnight; NoMinutes when split/int would raise
hm_minutes(text) ==
    LET parts == split(text, ":")
    IN IF Len(parts) = 2 /\ IntOk(parts[1]) /\ IntOk(parts[2])
       THEN int(parts[1]) * 60 + int(parts[2])
       ELSE NoMinutes

\* an hours check that counts the closing minute as open
hours_check_until_close(reservation_time, day_hours) ==
    LET req_minutes == hm_minutes(reservation_time)
        oc          == split(day_hours, "-")
        open_minutes  == IF Len(oc) = 2 THEN hm_minutes(oc[1]) ELSE NoMinutes
        close_minutes == IF Len(oc) = 2 THEN hm_minutes(oc[2]) ELSE NoMinutes
    IN IF NoMinutes \in {req_minutes, open_minutes, close_minutes}
       THEN "error"
       ELSE IF open_minutes = 0 /\ close_minutes = 0
       THEN "closed_all_day"
       ELSE IF close_minutes < open_minutes
       THEN IF req_minutes >= open_minutes \/ req_minutes <= close_minutes
            THEN "ok" ELSE "outside"
       ELSE IF open_minutes <= req_minutes /\ req_minutes <= close_minutes
            THEN "ok" ELSE "outside"

\* lines 308-326: "error" | "closed_all_day" | "outside" | "ok"
hours_check(reservation_time, day_hours) ==
    LET req_minutes == hm_minutes(reservation_time)
        oc          == split(day_hours, "-")
        open_minutes  == IF Len(oc) = 2 THEN hm_minutes(oc[1]) ELSE NoMinutes
        close_minutes == IF Len(oc) = 2 THEN hm_minutes(oc[2]) ELSE NoMinutes
    IN IF NoMinutes \in {req_minutes, open_minutes, close_minutes}
       THEN "error"
       ELSE IF open_minutes = 0 /\ close_minutes = 0
       THEN "closed_all_day"
       ELSE IF close_minutes < open_minutes
       THEN IF req_minutes >= open_minutes \/ req_minutes < close_minutes
            THEN "ok" ELSE "outside"
       ELSE IF open_minutes <= req_minutes /\ req_minutes < close_minutes
            THEN "ok" ELSE "outside"

(***************************************************************************)
(* Values kept in the store and returned by the tools.                     *)
(***************************************************************************)
\* the dict check_availability_tool stores under 'availability'
Token(date_str, reservation_time, party_size, restaurant_name) ==
    [date |-> date_str, time |-> reservation_time,
     party_size |-> party_size, restaurant |-> restaurant_name]

\* Python's None where the other values are such dicts
NoValue == Token(NoText, NoText, 0, None)

\* the reservation dict make_reservation_tool builds
NoReservation ==
    [reservation_id |-> None, restaurant_name |-> None, restaurant_id |-> None,
     date |-> NoText, time |-> NoText, party_size |-> 0,
     customer_name |-> NoText, status |-> None, created_at |-> NoDay]

\* customer names a tool call may pass
CustomerNames == {<<"S", "a", "r", "a", "h", " ", "J">>, <<"G", "u", "e", "s", "t">>}

(***************************************************************************)
(* State.                                                                  *)
(***************************************************************************)
VARIABLES
    tool_contexts,    \* _tool_contexts: thread_id (or None) -> {key: value}
    active_session,   \* _active_session in the context of each handler thread
    session,          \* the Flask session of each browser session
    req,              \* the chat request each handler thread is serving
    calls,            \* the tool calls of the current batch of each handler
    today,            \* datetime.now().date(), as a day number
    ncalls,           \* tool calls dispatched so far
    lastCheck,        \* history: what the session's last successful
                      \*          availability check stored, if any
    credit,           \* history: successful availability checks minus
                      \*          confirmed reservations, per session
    lastOp,           \* history: the last completed store update per bucket
    trial             \* a function of the code applied on its own: its name,
                      \*   its arguments and, once applied, its result

vars == <<tool_contexts, active_session, session, req, calls, today, 
          ncalls, lastCheck, credit, lastOp, trial>>

\* the state of the service
service == <<tool_contexts, active_session, session, req, calls, today,
             ncalls, lastCheck, credit, lastOp>>

EmptyDict == [k \in {} |-> NoValue]

\* a request of chat(); reservation is the last record the turn's commits
\* built, before the availability token the session's bucket held when the
\* turn began (both are history, kept for the properties)
IdleReq ==
    [pc |-> "idle", s |-> None, thread_id |-> None,
     response |-> [output |-> None, tool_context |-> EmptyDict,
                   reservation_json |-> NoValue],
     reservation |-> NoReservation, before |-> NoValue]

NoCall ==
    [tool |-> None, pc |-> "none", sid |-> None, customer_name |-> NoText,
     restaurant |-> <<>>, party_size |-> 0, availability |-> NoValue,
     result |-> None]

\* no function is being applied on its own
NoTrial == [f |-> None]

\* no request has been served yet
Fresh ==
    /\ tool_contexts = [b \in {} |-> EmptyDict]
    /\ active_session = [w \in Workers |-> None]
    /\ session = [s \in Sessions |->
                    [thread_id |-> InitialThread(s), tool_context |-> EmptyDict,
                     reservations |-> <<>>]]
    /\ req = [w \in Workers |-> IdleReq]
    /\ calls = [w \in Workers |-> [i \in Slots |-> NoCall]]
    /\ today = 0
    /\ ncalls = 0
    /\ lastCheck = [s \in Sessions |-> NoValue]
    /\ credit = [s \in Sessions |-> 0]
    /\ lastOp = [b \in ThreadIds |-> None]

Init ==
    /\ Fresh
    /\ trial = NoTrial

(***************************************************************************)
(* The session context store (src/tools.py, lines 32-69).  Every operator  *)
(* is one critical section of _tool_ctx_lock.                              *)
(***************************************************************************)
\* a store whose set keeps the value a key already has
set_tool_context_setdefault(ctxs, sid, key, value) ==
    LET bucket == IF sid \in DOMAIN ctxs THEN ctxs[sid] ELSE EmptyDict
    IN [b \in DOMAIN ctxs \cup {sid} |->
          IF b = sid
          THEN [k \in DOMAIN bucket \cup {key} |->
                  IF k \in DOMAIN bucket THEN bucket[k] ELSE value]
          ELSE ctxs[b]]

\* a store whose set writes the fields of a dict one at a time, and can be
\* overtaken between them: the time of the value it replaces survives
set_tool_context_torn(ctxs, sid, key, value) ==
    LET bucket == IF sid \in DOMAIN ctxs THEN ctxs[sid] ELSE EmptyDict
    IN [b \in DOMAIN ctxs \cup {sid} |->
          IF b = sid
          THEN [k \in DOMAIN bucket \cup {key} |->
                  IF k = key
                  THEN IF key \in DOMAIN bucket /\ bucket[key] # NoValue
                       THEN [value EXCEPT !.time = bucket[key].time]
                       ELSE value
                  ELSE bucket[k]]
          ELSE ctxs[b]]

\* set_tool_context(key, value) with sid = _active_session.get()
set_tool_context(ctxs, sid, key, value) ==
    LET bucket == IF sid \in DOMAIN ctxs THEN ctxs[sid] ELSE EmptyDict
    IN [b \in DOMAIN ctxs \cup {sid} |->
          IF b = sid
          THEN [k \in DOMAIN bucket \cup {key} |->
                  IF k = key THEN value ELSE bucket[k]]
          ELSE ctxs[b]]

\* get_tool_context(key)
get_tool_context(ctxs, sid, key) ==
    IF sid = None THEN NoValue
    ELSE IF sid \in DOMAIN ctxs /\ key \in DOMAIN ctxs[sid]
         THEN ctxs[sid][key]
         ELSE NoValue

\* a store whose clear removes nothing
clear_tool_context_keeps(ctxs, sid, key) == ctxs

\* clear_tool_context(key)
clear_tool_context(ctxs, sid, key) ==
    IF sid = None THEN ctxs
    ELSE IF sid \in DOMAIN ctxs
         THEN [b \in DOMAIN ctxs |->
                 IF b = sid
                 THEN [k \in DOMAIN ctxs[b] \ {key} |-> ctxs[b][k]]
                 ELSE ctxs[b]]
         ELSE ctxs

(***************************************************************************)
(* check_availability_tool (src/tools.py, lines 212-363).                  *)
(***************************************************************************)
\* an is_open_now without the branch for hours that cross midnight
is_open_now_same_day(hours, now_day, clock) ==
    IF DOMAIN hours = {} THEN FALSE
    ELSE IF day_name(now_day) \notin DOMAIN hours THEN FALSE
    ELSE LET day_hours     == hours[day_name(now_day)]
             current_time  == clock[1] * 60 + clock[2]
             oc            == split(day_hours, "-")
             open_minutes  == IF Len(oc) = 2 THEN hm_minutes(oc[1]) ELSE NoMinutes
             close_minutes == IF Len(oc) = 2 THEN hm_minutes(oc[2]) ELSE NoMinutes
         IN IF NoMinutes \in {open_minutes, close_minutes} THEN FALSE
            ELSE IF open_minutes = 0 /\ close_minutes = 0 THEN FALSE
            ELSE open_minutes <= current_time /\ current_time < close_minutes

\* is_open_now(hours) of src/database.py: whether the restaurant is open
is_open_now(hours, now_day, clock) ==
    IF DOMAIN hours = {} THEN FALSE
    ELSE IF day_name(now_day) \notin DOMAIN hours THEN FALSE
    ELSE LET day_hours     == hours[day_name(now_day)]
             current_time  == clock[1] * 60 + clock[2]
             oc            == split(day_hours, "-")
             open_minutes  == IF Len(oc) = 2 THEN hm_minutes(oc[1]) ELSE NoMinutes
             close_minutes == IF Len(oc) = 2 THEN hm_minutes(oc[2]) ELSE NoMinutes
         IN IF NoMinutes \in {open_minutes, close_minutes} THEN FALSE
            ELSE IF open_minutes = 0 /\ close_minutes = 0 THEN FALSE
            ELSE IF close_minutes < open_minutes
            THEN current_time >= open_minutes \/ current_time < close_minutes
            ELSE open_minutes <= current_time /\ current_time < close_minutes

\* what the database lookup of a tool call does: it returns, or it raises
\* (get_connection finds no database file, sqlite3 fails)
LookupOutcomes == {"returns", "raises"}

\* the exceptions raised inside the tools' try blocks
Exceptions == {"ValueError", "LookupError"}

\* a tool whose except branch lets the exception through to the workflow
error_text_reraised(e) == e

\* lines 361-363 and 483-485: the except branch returns the exception as text
error_text(e) == "Error"

\* a check that writes to the store on its failure paths too
CheckFailedStoring(result) == [result |-> result, stored |-> TRUE, token |-> NoValue]

\* lines 242-326 and 346-363: a return that leaves the store alone
CheckFailed(result) == [result |-> result, stored |-> FALSE, token |-> NoValue]

\* The tool's outcome: its result, whether it calls set_tool_context, and the
\* dict it stores.  now_day and clock are what datetime.now() returns.
check_availability_tool(name, date, time, party_size, now_day, clock, lookup) ==
    LET found == get_restaurant_by_name(name)
    IN IF lookup = "raises" THEN CheckFailed(error_text("LookupError"))
       ELSE IF found = <<>> THEN CheckFailed("NotFound")
       ELSE
       LET restaurant == found[1]
           reservation_date == IF date # None
                               THEN dateparser_date(date, now_day)
                               ELSE now_day
           reservation_time == parse_time(time, clock)
           day == day_name(reservation_date)
       IN IF time # NoText \/ date # None
          THEN IF ~accepts_reservations(restaurant)
               THEN CheckFailed("ReservationsNotAccepted")
               ELSE IF reservation_date = NoDay
               THEN CheckFailed("UnparseableDate")
               ELSE IF reservation_time = NoText
               THEN CheckFailed("UnparseableTime")
               ELSE IF DOMAIN restaurant.hours = {} \/ day \notin DOMAIN restaurant.hours
               THEN CheckFailed("HoursNotAvailable")
               ELSE LET ok == hours_check(reservation_time, restaurant.hours[day])
                    IN CASE ok = "error"          -> CheckFailed(error_text("ValueError"))
                         [] ok = "closed_all_day" -> CheckFailed("ClosedAllDay")
                         [] ok = "outside"        -> CheckFailed("OutsideOperatingHours")
                         [] OTHER ->
                              [result |-> "Available", stored |-> TRUE,
                               token  |-> Token(strftime_date(reservation_date),
                                                reservation_time, party_size,
                                                restaurant.name)]
          ELSE CheckFailed(IF is_open_now(restaurant.hours, now_day, clock)
                           THEN "OpenNow" ELSE "ClosedNow")

\* what a tool call may pass (the party size is left to its default), what
\* datetime.now() may return and what the lookup may do
CheckArgs ==
    NameArgs \X DateArgs \X TimeArgs \X {DefaultPartySize} \X ClockTimes
             \X LookupOutcomes

\* the outcomes of a call made on day d, over all arguments
CheckOutcomes ==
    [d \in 0..MaxDay |->
       {check_availability_tool(a[1], a[2], a[3], a[4], d, a[5], a[6]) :
          a \in CheckArgs}]

(***************************************************************************)
(* make_reservation_tool (src/tools.py, lines 366-485).                    *)
(***************************************************************************)
UpperCase == <<"A", "B", "C", "D", "E", "F", "G", "H", "I", "J", "K", "L", "M",
               "N", "O", "P", "Q", "R", "S", "T", "U", "V", "W", "X", "Y", "Z">>
LowerCase == <<"a", "b", "c", "d", "e", "f", "g", "h", "i", "j", "k", "l", "m",
               "n", "o", "p", "q", "r", "s", "t", "u", "v", "w", "x", "y", "z">>

\* str.lower()
lower(text) ==
    [i \in 1..Len(text) |->
        IF \E k \in 1..26 : UpperCase[k] = text[i]
        THEN LowerCase[CHOOSE k \in 1..26 : UpperCase[k] = text[i]]
        ELSE text[i]]

\* characters str.strip() removes
Whitespace == {" ", "\t", "\n"}

\* str.strip()
RECURSIVE strip(_)
strip(text) ==
    IF Len(text) = 0 THEN text
    ELSE IF text[1] \in Whitespace THEN strip(Tail(text))
    ELSE IF text[Len(text)] \in Whitespace
    THEN strip(SubSeq(text, 1, Len(text) - 1))
    ELSE text

generic_names == {<<"g", "u", "e", "s", "t">>, <<"u", "s", "e", "r">>,
                  <<"c", "u", "s", "t", "o", "m", "e", "r">>,
                  <<"r", "e", "s", "e", "r", "v", "a", "t", "i", "o", "n">>,
                  <<"t", "a", "b", "l", "e">>, <<"n", "a", "m", "e">>,
                  <<"p", "e", "r", "s", "o", "n">>, <<"c", "l", "i", "e", "n", "t">>}

\* a validation that compares with the placeholders case-sensitively
validate_customer_name_cased(customer_name) ==
    IF Len(customer_name) = 0 \/ Len(strip(customer_name)) = 0 THEN "NameEmpty"
    ELSE IF strip(customer_name) \in generic_names THEN "NamePlaceholder"
    ELSE IF Len(strip(customer_name)) < 2 THEN "NameTooShort"
    ELSE None

\* lines 398-406: None when the name passes, else the rejection
validate_customer_name(customer_name) ==
    IF Len(customer_name) = 0 \/ Len(strip(customer_name)) = 0 THEN "NameEmpty"
    ELSE IF strip(lower(customer_name)) \in generic_names THEN "NamePlaceholder"
    ELSE IF Len(strip(customer_name)) < 2 THEN "NameTooShort"
    ELSE None

\* a commit that looks for the token before it looks at its arguments
reservation_precheck_token_first(customer_name, name, availability, lookup) ==
    IF availability = NoValue THEN "NoAvailabilityChecked"
    ELSE IF validate_customer_name(customer_name) # None
    THEN validate_customer_name(customer_name)
    ELSE IF lookup = "raises" THEN error_text("LookupError")
    ELSE IF get_restaurant_by_name(name) = <<>> THEN "NotFound"
    ELSE IF ~accepts_reservations(get_restaurant_by_name(name)[1])
    THEN "ReservationsNotAccepted"
    ELSE None

\* lines 397-430: the checks made before the token is used.  `availability`
\* is what get_tool_context('availability') returned.
reservation_precheck(customer_name, name, availability, lookup) ==
    IF validate_customer_name(customer_name) # None
    THEN validate_customer_name(customer_name)
    ELSE IF lookup = "raises" THEN error_text("LookupError")
    ELSE IF get_restaurant_by_name(name) = <<>> THEN "NotFound"
    ELSE IF ~accepts_reservations(get_restaurant_by_name(name)[1])
    THEN "ReservationsNotAccepted"
    ELSE IF availability = NoValue THEN "NoAvailabilityChecked"
    ELSE None

\* the outcome of lines 397-425, which read no state, for every argument
ArgsVerdict ==
    [customer_name \in CustomerNames, name \in NameArgs,
     lookup \in LookupOutcomes |->
        LET verdict == reservation_precheck(customer_name, name, NoValue, lookup)
        IN IF verdict = "NoAvailabilityChecked" THEN None ELSE verdict]

\* what lines 397-430 answer, over all arguments, when the session holds no
\* token
NoTokenVerdicts ==
    {reservation_precheck(c, n, NoValue, l) :
       c \in CustomerNames, n \in NameArgs, l \in LookupOutcomes}

\* lines 438-440
availability_is_stale(availability, now_day) ==
    strptime_date(availability.date) < now_day

\* lines 397-461: what the tool answers, given what get_tool_context returns
\* if it is called
make_reservation_verdict(customer_name, name, availability, lookup, now_day) ==
    IF reservation_precheck(customer_name, name, availability, lookup) # None
    THEN reservation_precheck(customer_name, name, availability, lookup)
    ELSE IF availability_is_stale(availability, now_day)
    THEN "StaleAvailability"
    ELSE "Confirmed"

\* a record that takes the party size from the caller's argument
build_reservation_from_argument(reservation_id, restaurant, availability, customer_name, party_size, now_day) ==
    [reservation_id  |-> reservation_id,
     restaurant_name |-> restaurant.name,
     restaurant_id   |-> restaurant.business_id,
     date            |-> availability.date,
     time            |-> availability.time,
     party_size      |-> party_size,
     customer_name   |-> customer_name,
     status          |-> "confirmed",
     created_at      |-> now_day]

\* lines 443-458: the reservation dict
build_reservation(reservation_id, restaurant, availability, customer_name, party_size, now_day) ==
    [reservation_id  |-> reservation_id,
     restaurant_name |-> restaurant.name,
     restaurant_id   |-> restaurant.business_id,
     date            |-> availability.date,
     time            |-> availability.time,
     party_size      |-> availability.party_size,
     customer_name   |-> customer_name,
     status          |-> "confirmed",
     created_at      |-> now_day]

(***************************************************************************)
(* The chat handler (src/app.py) and run_agent                             *)
(* (src/discovery_and_reservation_agent.py).  A handler thread is a new    *)
(* thread, whose context is empty, or a pooled thread, whose context is as *)
(* the previous request it served left it.                                 *)
(***************************************************************************)
Serving(s) == \E w \in Workers : req[w].pc # "idle" /\ req[w].s = s

\* every tool call of the current batch has returned
Returned(w) == \A i \in Slots : calls[w][i].pc \in {"none", "done"}

\* what supervisor.invoke does: it returns a RouteDecision with one of the
\* two labels, or it raises (the call times out, the output does not validate)
ClassifierAnswers == {"restaurant", "support", "timeout", "malformed"}

\* a router that hands a failed classification to the support workflow
route_request_failing_to_support(answer) ==
    IF answer \in {"restaurant", "support"} THEN answer ELSE "support"

\* route_request: the label the classifier returned, or "restaurant" when the
\* classification call raised
route_request(answer) ==
    IF answer \in {"restaurant", "support"} THEN answer ELSE "restaurant"

\* a handler that appends every reservation it is handed
store_reservation_unchecked(reservations, reservation_json) ==
    IF reservation_json # NoValue
    THEN Append(reservations, reservation_json)
    ELSE reservations

\* chat(), lines 108-117: the returned reservation is appended to the
\* session's list unless a record of the list already has its reservation_id
store_reservation(reservations, reservation_json) ==
    LET existing_ids == {reservations[k].reservation_id :
                           k \in 1..Len(reservations)}
    IN IF reservation_json # NoValue
          /\ reservation_json.reservation_id \notin existing_ids
       THEN Append(reservations, reservation_json)
       ELSE reservations

\* chat(), lines 94-105: the workflow run for a label
chat_workflow(agent_choice) ==
    IF agent_choice = "support" THEN "support" ELSE "discovery"

\* run_agent, lines 102-105: the store after the restore loop, run with the
\* context bound to sid
restore_tool_context(ctxs, sid, tool_context) ==
    IF "availability" \in DOMAIN tool_context
       /\ tool_context["availability"] # NoValue
    THEN set_tool_context(ctxs, sid, "availability", tool_context["availability"])
    ELSE ctxs

\* the tools handed to the discovery agent (tools.py, lines 560-566)
all_tools ==
    {"search_restaurants_tool", "get_restaurant_details_tool",
     "check_availability_tool", "make_reservation_tool",
     "get_restaurant_reviews_tool"}

\* the tools handed to the support agent: view, modify and cancel an
\* existing reservation of the caller-held list
support_tools ==
    {"view_reservation_tool", "modify_reservation_tool",
     "cancel_reservation_tool"}

\* the two tools that use the session context store
StoreTools ==
    [check |-> "check_availability_tool", commit |-> "make_reservation_tool"]

\* agents that were all built over the discovery tools
workflow_tools_shared(workflow) ==
    {t \in DOMAIN StoreTools : StoreTools[t] \in all_tools}

\* create_agent(model, all_tools) and create_agent(model, support_tools):
\* the store tools the language model of a workflow can call
workflow_tools(workflow) ==
    {t \in DOMAIN StoreTools :
       StoreTools[t] \in (IF workflow = "support" THEN support_tools
                           ELSE all_tools)}

\* chat(), lines 72-100, with run_support_agent, lines 106-116: a turn routed
\* to the support workflow, which binds the handler's context
ChatSupport(w, s) ==
    /\ req[w].pc = "idle"
    /\ ~Serving(s)
    /\ \E answer \in ClassifierAnswers :
         /\ chat_workflow(route_request(answer)) = "support"
         /\ active_session' = [active_session EXCEPT ![w] = session[s].thread_id]
    /\ req' = [req EXCEPT ![w] =
                 [IdleReq EXCEPT !.pc = "support", !.s = s,
                                 !.thread_id = session[s].thread_id]]
    /\ UNCHANGED <<trial, tool_contexts, session, calls, today, lastCheck,
                   credit, lastOp, ncalls>>

\* run_support_agent, lines 118-146, and chat(), lines 98-100 and 122-133:
\* the support agent answers; its tools act on the caller-held reservation
\* list, which chat() stores back, and the snapshot is not written
ChatSupportReturn(w) ==
    /\ req[w].pc = "support"
    /\ Returned(w)
    /\ session' = [session EXCEPT
         ![req[w].s].reservations = session[req[w].s].reservations]
    /\ req' = [req EXCEPT ![w] = IdleReq]
    /\ calls' = [calls EXCEPT ![w] = [i \in Slots |-> NoCall]]
    /\ UNCHANGED <<trial, tool_contexts, active_session, today, lastCheck,
                   credit, lastOp, ncalls>>

\* chat(), lines 72-105, and run_agent, lines 100-110: a turn routed to the
\* discovery workflow; run_agent restores the snapshot, then binds the context
ChatRunAgent(w, s) ==
    /\ req[w].pc = "idle"
    /\ ~Serving(s)
    /\ \E pooled \in BOOLEAN, answer \in ClassifierAnswers :
         LET bound == IF pooled THEN active_session[w] ELSE None
             tool_context == session[s].tool_context
         IN /\ chat_workflow(route_request(answer)) = "discovery"
            /\ tool_contexts' = restore_tool_context(tool_contexts, bound, tool_context)
            /\ lastOp' = IF bound # None
                            /\ restore_tool_context(EmptyDict, bound, tool_context)
                                 # EmptyDict
                         THEN [lastOp EXCEPT ![bound] = "restore"]
                         ELSE lastOp
    /\ active_session' = [active_session EXCEPT ![w] = session[s].thread_id]
    /\ req' = [req EXCEPT ![w] =
                 [IdleReq EXCEPT
                    !.pc = "llm", !.s = s,
                    !.thread_id = session[s].thread_id,
                    !.before = get_tool_context(tool_contexts,
                                                session[s].thread_id,
                                                "availability")]]
    /\ UNCHANGED <<trial, session, calls, today, lastCheck, credit, ncalls>>

\* agent.invoke, lines 113-116: the language model asks for a batch of tool
\* calls, which run in worker threads holding a copy of the handler's context
Dispatch(w, max) ==
    /\ req[w].pc \in {"llm", "support"}
    /\ Returned(w)
    /\ \E batch \in [Slots -> {None} \cup workflow_tools(
                                  IF req[w].pc = "support" THEN "support"
                                  ELSE "discovery")] :
         LET n == Cardinality({i \in Slots : batch[i] # None})
         IN /\ n > 0
            /\ ncalls + n <= max
            /\ \A i, j \in Slots : (batch[i] = None /\ j > i) => batch[j] = None
            /\ calls' = [calls EXCEPT ![w] =
                 [i \in Slots |->
                    IF batch[i] = None THEN NoCall
                    ELSE [NoCall EXCEPT !.tool = batch[i], !.pc = "start",
                                        !.sid = active_session[w]]]]
            /\ ncalls' = ncalls + n
    /\ UNCHANGED <<trial, tool_contexts, active_session, session, req, today, 
                   lastCheck, credit, lastOp>>

\* check_availability_tool in worker thread i of handler w
CheckAvailability(w, i) ==
    /\ calls[w][i].tool = "check" /\ calls[w][i].pc = "start"
    /\ \E out \in CheckOutcomes[today] :
         LET sid == calls[w][i].sid
         IN /\ tool_contexts' =
                 IF out.stored
                 THEN set_tool_context(tool_contexts, sid, "availability", out.token)
                 ELSE tool_contexts
            /\ calls' = [calls EXCEPT ![w][i].pc = "done",
                                      ![w][i].result = out.result]
            /\ lastCheck' = IF out.stored
                            THEN [lastCheck EXCEPT ![req[w].s] = out.token]
                            ELSE lastCheck
            /\ credit' = IF out.stored
                         THEN [credit EXCEPT ![req[w].s] = @ + 1]
                         ELSE credit
            /\ lastOp' = IF out.stored
                         THEN [lastOp EXCEPT ![sid] = "check"]
                         ELSE lastOp
    /\ UNCHANGED <<trial, active_session, session, req, today, ncalls>>

\* a commit that drops the session's token when it rejects its arguments
MakeReservationReadConsuming(w, i) ==
    /\ calls[w][i].tool = "commit" /\ calls[w][i].pc = "start"
    /\ \E customer_name \in CustomerNames, name \in NameArgs,
          party_size \in PartySizes, lookup \in LookupOutcomes :
         LET sid == calls[w][i].sid
             availability == get_tool_context(tool_contexts, sid, "availability")
             failure == IF ArgsVerdict[customer_name, name, lookup] # None
                        THEN ArgsVerdict[customer_name, name, lookup]
                        ELSE reservation_precheck(customer_name, name,
                                                  availability, lookup)
         IN /\ calls' = [calls EXCEPT ![w][i] =
                  IF failure # None
                  THEN [@ EXCEPT !.pc = "done", !.result = failure]
                  ELSE [@ EXCEPT !.pc = "got",
                                 !.customer_name = customer_name,
                                 !.restaurant = get_restaurant_by_name(name),
                                 !.party_size = party_size,
                                 !.availability = availability]]
            /\ tool_contexts' =
                 IF failure # None
                 THEN clear_tool_context(tool_contexts, sid, "availability")
                 ELSE tool_contexts
    /\ UNCHANGED <<trial, active_session, session, req, today,
                   lastCheck, credit, lastOp, ncalls>>

\* make_reservation_tool, lines 396-430: up to the read of the token
MakeReservationRead(w, i) ==
    /\ calls[w][i].tool = "commit" /\ calls[w][i].pc = "start"
    /\ \E customer_name \in CustomerNames, name \in NameArgs,
          party_size \in PartySizes, lookup \in LookupOutcomes :
         LET sid == calls[w][i].sid
             availability == get_tool_context(tool_contexts, sid, "availability")
             failure == IF ArgsVerdict[customer_name, name, lookup] # None
                        THEN ArgsVerdict[customer_name, name, lookup]
                        ELSE reservation_precheck(customer_name, name,
                                                  availability, lookup)
         IN calls' = [calls EXCEPT ![w][i] =
               IF failure # None
               THEN [@ EXCEPT !.pc = "done", !.result = failure]
               ELSE [@ EXCEPT !.pc = "got",
                              !.customer_name = customer_name,
                              !.restaurant = get_restaurant_by_name(name),
                              !.party_size = party_size,
                              !.availability = availability]]
    /\ UNCHANGED <<trial, tool_contexts, active_session, session, req, today, 
                   lastCheck, credit, lastOp, ncalls>>

\* make_reservation_tool, lines 432-481: the date check, the record and the
\* clear of the token.  The date check (line 438) and created_at (line 457)
\* read the clock separately: local midnight may pass between the two.
MakeReservationCommit(w, i) ==
    /\ calls[w][i].tool = "commit" /\ calls[w][i].pc = "got"
    /\ LET c == calls[w][i]
       IN IF availability_is_stale(c.availability, today)
          THEN /\ calls' = [calls EXCEPT ![w][i].pc = "done",
                                         ![w][i].customer_name = NoText,
                                         ![w][i].restaurant = <<>>,
                                         ![w][i].result = "StaleAvailability"]
               /\ UNCHANGED <<tool_contexts, req, credit, lastOp, today>>
          ELSE \E reservation_id \in ReservationIds,
                  created \in {d \in {today, today + 1} : d <= MaxDay} :
               LET reservation ==
                     build_reservation(reservation_id, c.restaurant[1],
                                       c.availability, c.customer_name,
                                       c.party_size, created)
               IN /\ today' = created
                  /\ tool_contexts' =
                       clear_tool_context(tool_contexts, c.sid, "availability")
                  /\ calls' = [calls EXCEPT ![w][i].pc = "done",
                                            ![w][i].result = "Confirmed",
                                            ![w][i].customer_name = NoText,
                                            ![w][i].restaurant = <<>>]
                  /\ req' = [req EXCEPT ![w].reservation = reservation]
                  /\ credit' = [credit EXCEPT ![req[w].s] = @ - 1]
                  /\ lastOp' = [lastOp EXCEPT ![c.sid] = "commit"]
    /\ UNCHANGED <<trial, active_session, session, lastCheck, ncalls>>

\* run_agent, lines 118-146: the model has answered; snapshot and return
RunAgentReturn(w) ==
    /\ req[w].pc = "llm"
    /\ Returned(w)
    /\ req' = [req EXCEPT
         ![w].pc = "persist",
         ![w].response =
            [output |-> "answer",
             tool_context |->
               [k \in {"availability"} |->
                  get_tool_context(tool_contexts, active_session[w], "availability")],
             reservation_json |->
               get_tool_context(tool_contexts, active_session[w], "reservation")]]
    /\ calls' = [calls EXCEPT ![w] = [i \in Slots |-> NoCall]]
    /\ UNCHANGED <<trial, tool_contexts, active_session, session, today, 
                   lastCheck, credit, lastOp, ncalls>>

\* run_agent, lines 121-127 and 148-154: agent.invoke returned no messages,
\* or raised
RunAgentRaises(w) ==
    /\ req[w].pc = "llm"
    /\ Returned(w)
    /\ req' = [req EXCEPT
         ![w].pc = "persist",
         ![w].response = [output |-> "apology",
                          tool_context |-> [k \in {"availability"} |-> NoValue],
                          reservation_json |-> NoValue]]
    /\ calls' = [calls EXCEPT ![w] = [i \in Slots |-> NoCall]]
    /\ UNCHANGED <<trial, tool_contexts, active_session, session, today, 
                   lastCheck, credit, lastOp, ncalls>>

\* chat(), lines 108-120: keep the reservation and the snapshot
ChatPersist(w) ==
    /\ req[w].pc = "persist"
    /\ LET reservation_json == req[w].response.reservation_json
           reservations == session[req[w].s].reservations
       IN session' = [session EXCEPT
            ![req[w].s].reservations =
               store_reservation(reservations, reservation_json),
            ![req[w].s].tool_context = req[w].response.tool_context]
    /\ req' = [req EXCEPT ![w] = IdleReq]
    /\ UNCHANGED <<trial, tool_contexts, active_session, calls, today, 
                   lastCheck, credit, lastOp, ncalls>>

\* local midnight passes
Tick ==
    /\ today < MaxDay
    /\ today' = today + 1
    /\ UNCHANGED <<trial, tool_contexts, active_session, session, req, calls, 
                   lastCheck, credit, lastOp, ncalls>>

\* reset(): the session's reservation list and snapshot are emptied and it
\* gets a new thread id; the store is not touched. The browser resets between
\* two of its requests, and here once per session. The history of checks
\* starts again: lastCheck then tells what was checked since the reset
Reset(s) ==
    /\ ~Serving(s)
    /\ session[s].thread_id = InitialThread(s)
    /\ session' = [session EXCEPT ![s] =
                     [thread_id |-> ResetThread(s), tool_context |-> EmptyDict,
                      reservations |-> <<>>]]
    /\ lastCheck' = [x \in Sessions |-> NoValue]
    /\ UNCHANGED <<trial, tool_contexts, active_session, req, calls, today,
                   credit, lastOp, ncalls>>

\* one step of the service when handler threads WS serve the sessions of SS
\* and the language model asks for at most max tool calls
Step(WS, SS, max) ==
    \/ \E w \in WS, s \in SS : ChatSupport(w, s)
    \/ \E w \in WS : ChatSupportReturn(w)
    \/ \E w \in WS, s \in SS : ChatRunAgent(w, s)
    \/ \E w \in WS : Dispatch(w, max)
    \/ \E w \in WS, i \in Slots : CheckAvailability(w, i)
    \/ \E w \in WS, i \in Slots : MakeReservationRead(w, i)
    \/ \E w \in WS, i \in Slots : MakeReservationCommit(w, i)
    \/ \E w \in WS : RunAgentReturn(w)
    \/ \E w \in WS : RunAgentRaises(w)
    \/ \E w \in WS : ChatPersist(w)
    \/ Tick

\* one browser session talking to the service: its requests come one at a
\* time, to a handler thread that is new or reused
Next == Step({"w1"}, {"A"}, MaxCalls)

Spec == Init /\ [][Next]_vars

\* two browser sessions talking to the service
NextShared == Step(Workers, Sessions, MaxSharedCalls)

SpecShared == Init /\ [][NextShared]_vars

\* two browser sessions served by one handler thread, the first of which may
\* reset
NextReset == Step({"w1"}, Sessions, MaxSharedCalls) \/ Reset("A")

SpecReset == Init /\ [][NextReset]_vars

(***************************************************************************)
(* The functions of the code applied on their own, to arguments drawn from *)
(* the sets below.                                                         *)
(***************************************************************************)
\* opening, closing and query times, <<hour, minute>>
TrialTimes == {<<0, 0>>, <<2, 0>>, <<3, 0>>, <<17, 0>>, <<21, 59>>, <<22, 0>>,
               <<23, 30>>}

\* an hours string with two-digit minutes, "H:MM-H:MM"
HoursStrMM(oh, om, ch, cm) ==
    str(oh) \o <<":">> \o fmt02d(om) \o <<"-">> \o str(ch) \o <<":">> \o fmt02d(cm)

\* the hours check of check_availability_tool and is_open_now, asked about
\* the hours string of one day at one time of that day
HoursTrials ==
    {[f |-> "hours", open |-> o, close |-> c, at |-> t, done |-> FALSE,
      day_hours |-> IF mm THEN HoursStrMM(o[1], o[2], c[1], c[2])
                          ELSE HoursStr(o[1], o[2], c[1], c[2]),
      check |-> None, open_now |-> FALSE] :
        o \in TrialTimes, c \in TrialTimes, t \in TrialTimes, mm \in BOOLEAN}

\* str.upper()
upper(text) ==
    [i \in 1..Len(text) |->
        IF \E k \in 1..26 : LowerCase[k] = text[i]
        THEN UpperCase[CHOOSE k \in 1..26 : LowerCase[k] = text[i]]
        ELSE text[i]]

\* str.capitalize() of lower-case text
capitalize(text) ==
    IF Len(text) = 0 THEN text ELSE upper(<<text[1]>>) \o Tail(text)

\* names in lower case, without surrounding whitespace: the placeholders and
\* others
BaseNames ==
    generic_names \cup
    {<<>>, <<"a">>, <<"a", "l">>, <<"g", "u", "e", "s", "t", "s">>,
     <<"m", "y", " ", "n", "a", "m", "e">>,
     <<"s", "a", "r", "a", "h", " ", "j", "o", "h", "n", "s", "o", "n">>}

\* whitespace typed around a name
Padding == {<<>>, <<" ">>, <<"\t">>, <<" ", "\n">>}

\* the name validation of make_reservation_tool, asked about a name written
\* in some casing with some whitespace around it
NameTrials ==
    {[f |-> "name", base |-> b, done |-> FALSE,
      customer_name |-> l \o (CASE c = "lower" -> b
                                [] c = "upper" -> upper(b)
                                [] c = "capitalized" -> capitalize(b)) \o r,
      verdict |-> None, proceeds |-> FALSE] :
        b \in BaseNames, c \in {"lower", "upper", "capitalized"},
        l \in Padding, r \in Padding}

\* time expressions passed to a check made on its own: those of TimeArgs, a
\* 24-hour time the date parser reads, and two it cannot read and leaves to
\* the regular expression
TrialTimeArgs ==
    TimeArgs \cup {<<"1", "8", ":", "3", "0">>, <<"2", "5", ":", "0", "0">>,
                   <<"1", "8", ":", "7", "5">>}

\* party_size is declared int and not checked further
TrialPartySizes == {0 - 1, 0, DefaultPartySize, 4}

\* check_availability_tool, called on some day at some time of day in a
\* session that holds no token
CheckTrials ==
    {[f |-> "check", name |-> a[1], date |-> a[2], time |-> a[3],
      party_size |-> a[4], clock |-> a[5], lookup |-> a[6], now_day |-> d,
      done |-> FALSE, result |-> None] :
        a \in NameArgs \X DateArgs \X TrialTimeArgs \X TrialPartySizes
                \X ClockTimes \X LookupOutcomes,
        d \in 0..MaxDay}

\* two availability checks of one batch, run by two tool threads bound to
\* session A; each is <<name, date, time, party_size, clock, lookup>>
ConcurrentCheckArgs ==
    {"Vetri Cucina"} \X {"today", "tomorrow"}
        \X {<<"7", "p", "m">>, <<"1", "8", ":", "3", "0">>, <<"3", "a", "m">>}
        \X {DefaultPartySize, 4} \X {<<19, 0>>} \X {"returns"}

ConcurrentCheckTrials ==
    {[f |-> "checks", args |-> <<a, b>>, now_day |-> d,
      done |-> <<FALSE, FALSE>>, result |-> <<None, None>>] :
        a \in ConcurrentCheckArgs, b \in ConcurrentCheckArgs, d \in 0..MaxDay}

\* make_reservation_tool called with arguments that may fail several of its
\* checks at once, in a session that holds no token, a token or a token of
\* an earlier day
CommitNames == {<<>>, <<" ">>, <<"G", "u", "e", "s", "t">>, <<"J">>,
                <<"S", "a", "r", "a", "h", " ", "J">>}

CommitTokens ==
    {NoValue} \cup {Token(strftime_date(d), fmtHM(19, 0), DefaultPartySize,
                          "Vetri Cucina") : d \in 0..MaxDay}

CommitTrials ==
    {[f |-> "commit", customer_name |-> c, name |-> n, availability |-> t,
      lookup |-> l, now_day |-> d, done |-> FALSE, result |-> None] :
        c \in CommitNames, n \in NameArgs, t \in CommitTokens,
        l \in LookupOutcomes, d \in 0..MaxDay}

\* route_request and the branch chat() takes on its label
RouteTrials ==
    {[f |-> "route", answer |-> a, done |-> FALSE, label |-> None,
      workflow |-> None] : a \in ClassifierAnswers}

\* reservations a turn may return, and the lists a session may hold: chat()
\* only ever appends a record whose id is new, so a list has distinct ids
ReturnedReservations ==
    {[NoReservation EXCEPT !.reservation_id = id, !.customer_name = n,
                           !.status = "confirmed"] :
       id \in ReservationIds, n \in CustomerNames}

ReservationLists ==
    {<<>>} \cup {<<r>> : r \in ReturnedReservations}
           \cup {l \in {<<r, q>> : r \in ReturnedReservations,
                                   q \in ReturnedReservations} :
                   l[1].reservation_id # l[2].reservation_id}

StoreTrials ==
    {[f |-> "store", reservations |-> l, reservation_json |-> r,
      done |-> FALSE] :
       l \in ReservationLists, r \in ReturnedReservations \cup {NoValue}}

Trials ==
    HoursTrials \cup NameTrials \cup CheckTrials \cup RouteTrials
        \cup StoreTrials \cup ConcurrentCheckTrials \cup CommitTrials

InitTrial ==
    /\ Fresh
    /\ trial \in Trials

\* tools.py, lines 305-326, and database.py, lines 197-247
ApplyHours ==
    /\ trial.f = "hours" /\ ~trial.done
    /\ trial' = [trial EXCEPT
                   !.done = TRUE,
                   !.check = hours_check(fmtHM(trial.at[1], trial.at[2]),
                                         trial.day_hours),
                   !.open_now = is_open_now([Monday |-> trial.day_hours], 0,
                                            trial.at)]
    /\ UNCHANGED service

\* tools.py, lines 397-430, in a session that holds a token
ApplyName ==
    /\ trial.f = "name" /\ ~trial.done
    /\ trial' = [trial EXCEPT
                   !.done = TRUE,
                   !.verdict = validate_customer_name(trial.customer_name),
                   !.proceeds =
                      reservation_precheck(
                          trial.customer_name, "Vetri Cucina",
                          Token(strftime_date(0), fmtHM(19, 0), DefaultPartySize,
                                "Vetri Cucina"), "returns") = None]
    /\ UNCHANGED service

\* tools.py, lines 212-363, in a worker thread bound to session A
ApplyCheck ==
    /\ trial.f = "check" /\ ~trial.done
    /\ LET out == check_availability_tool(trial.name, trial.date, trial.time,
                                          trial.party_size, trial.now_day,
                                          trial.clock, trial.lookup)
       IN /\ trial' = [trial EXCEPT !.done = TRUE, !.result = out.result]
          /\ tool_contexts' =
               IF out.stored
               THEN set_tool_context(tool_contexts, InitialThread("A"),
                                     "availability", out.token)
               ELSE tool_contexts
    /\ UNCHANGED <<active_session, session, req, calls, today, ncalls,
                   lastCheck, credit, lastOp>>

\* supervisor_agent.py, lines 36-83, and app.py, lines 84-105
ApplyRoute ==
    /\ trial.f = "route" /\ ~trial.done
    /\ trial' = [trial EXCEPT
                   !.done = TRUE,
                   !.label = route_request(trial.answer),
                   !.workflow = chat_workflow(route_request(trial.answer))]
    /\ UNCHANGED service

\* app.py, lines 81 and 108-117: session A holds a list and the turn returns
\* a reservation
ApplyStore ==
    /\ trial.f = "store" /\ ~trial.done
    /\ trial' = [trial EXCEPT !.done = TRUE]
    /\ session' = [session EXCEPT
         !["A"].reservations =
            store_reservation(trial.reservations, trial.reservation_json)]
    /\ UNCHANGED <<tool_contexts, active_session, req, calls, today, ncalls,
                   lastCheck, credit, lastOp>>

\* the outcome of check i of a batch of two
concurrent_check(t, i) ==
    check_availability_tool(t.args[i][1], t.args[i][2], t.args[i][3],
                            t.args[i][4], t.now_day, t.args[i][5],
                            t.args[i][6])

\* tools.py, lines 212-363, in tool thread i: the threads run in any order,
\* and each set_tool_context is one critical section of the lock
ApplyConcurrentCheck ==
    /\ trial.f = "checks"
    /\ \E i \in {1, 2} :
         /\ ~trial.done[i]
         /\ trial' = [trial EXCEPT
                        !.done[i] = TRUE,
                        !.result[i] = concurrent_check(trial, i).result]
         /\ tool_contexts' =
              IF concurrent_check(trial, i).stored
              THEN set_tool_context(tool_contexts, InitialThread("A"),
                                    "availability",
                                    concurrent_check(trial, i).token)
              ELSE tool_contexts
    /\ UNCHANGED <<active_session, session, req, calls, today, ncalls,
                   lastCheck, credit, lastOp>>

\* tools.py, lines 396-461
ApplyCommit ==
    /\ trial.f = "commit" /\ ~trial.done
    /\ trial' = [trial EXCEPT
                   !.done = TRUE,
                   !.result = make_reservation_verdict(
                                 trial.customer_name, trial.name,
                                 trial.availability, trial.lookup,
                                 trial.now_day)]
    /\ UNCHANGED service

NextTrial ==
    \/ ApplyCommit
    \/ ApplyConcurrentCheck
    \/ ApplyStore
    \/ ApplyHours
    \/ ApplyName
    \/ ApplyCheck
    \/ ApplyRoute

SpecTrial == InitTrial /\ [][NextTrial]_vars

(***************************************************************************)
(* Properties of the booking protocol.                                     *)
(***************************************************************************)

\* C1: a commit in a session that has had no successful availability check
\* never returns a confirmed reservation (with a valid name and a restaurant
\* that takes reservations it is rejected with NoAvailabilityChecked).
C1_CommitNeedsCheck ==
    \A w \in Workers, i \in Slots :
        (calls[w][i].tool = "commit" /\ calls[w][i].result = "Confirmed")
            => lastCheck[req[w].s] # NoValue

\* C2: a commit attempted when the last update of the session's bucket was a
\* successful commit (no check in between) finds no token: it returns
\* NoAvailabilityChecked, or an argument rejection that precedes the token
\* read, writes nothing and creates no reservation.
C2_SecondCommitFails ==
    [][\A w \in Workers, i \in Slots :
         ( /\ calls[w][i].tool = "commit"
           /\ calls[w][i].pc = "start"
           /\ calls'[w][i].pc # "start"
           /\ lastOp[calls[w][i].sid] = "commit" )
         => /\ get_tool_context(tool_contexts, calls[w][i].sid, "availability")
                 = NoValue
            /\ calls'[w][i].pc = "done"
            /\ calls'[w][i].result \in NoTokenVerdicts
            /\ \A c \in CustomerNames, n \in NameArgs, l \in LookupOutcomes :
                 ArgsVerdict[c, n, l] = None
                   => reservation_precheck(c, n, NoValue, l)
                        = "NoAvailabilityChecked"
            /\ req'[w].reservation = req[w].reservation
            /\ tool_contexts' = tool_contexts]_vars

\* a lone commit, made after a check and a confirmed commit, was rejected
\* with NoAvailabilityChecked
C2_Witness ==
    \E w \in Workers :
        /\ calls[w][1].tool = "commit"
        /\ calls[w][1].result = "NoAvailabilityChecked"
        /\ calls[w][2].pc = "none"
        /\ lastOp[calls[w][1].sid] = "commit"
        /\ lastCheck[req[w].s] # NoValue
        /\ credit[req[w].s] = 0

\* C3: two commits of one batch, run in parallel against one token, are never
\* both confirmed.
C3_OneCommitPerToken ==
    \A w \in Workers :
        ~ /\ \A i \in Slots : /\ calls[w][i].tool = "commit"
                              /\ calls[w][i].result = "Confirmed"
          /\ calls[w][1].availability = calls[w][2].availability

\* C4: the token a commit reads is the one that the last successful check of
\* its own session stored, never one that came from another session.
C4_OwnTokenOnly ==
    [][\A w \in Workers, i \in Slots :
         ( /\ calls[w][i].tool = "commit"
           /\ calls[w][i].pc = "start"
           /\ calls'[w][i].pc = "got" )
         => calls'[w][i].availability = lastCheck[req[w].s]]_vars

\* C5: in every session the confirmed reservations never outnumber the
\* successful availability checks.
C5_ConfirmedWithinChecks ==
    \A s \in Sessions : credit[s] >= 0

\* C6: a commit attempted when the last update of the session's bucket was a
\* successful check reads the token of the session's last successful check,
\* whatever earlier checks stored.
C6_LastCheckCommitted ==
    [][\A w \in Workers, i \in Slots :
         ( /\ calls[w][i].tool = "commit"
           /\ calls[w][i].pc = "start"
           /\ calls'[w][i].pc # "start"
           /\ lastOp[calls[w][i].sid] = "check" )
         => /\ get_tool_context(tool_contexts, calls[w][i].sid, "availability")
                 = lastCheck[req[w].s]
            /\ calls'[w][i].pc = "got"
                 => calls'[w][i].availability = lastCheck[req[w].s]]_vars

\* a lone commit, made after two successful checks, was confirmed with the
\* data of the last one
C6_Witness ==
    \E w \in Workers :
        /\ calls[w][1].tool = "commit"
        /\ calls[w][1].result = "Confirmed"
        /\ calls[w][2].pc = "none"
        /\ credit[req[w].s] = 1
        /\ calls[w][1].availability = lastCheck[req[w].s]
        /\ req[w].reservation.date = lastCheck[req[w].s].date
        /\ req[w].reservation.time = lastCheck[req[w].s].time
        /\ req[w].reservation.party_size = lastCheck[req[w].s].party_size

\* C7: the record of a confirmed reservation has status 'confirmed' and the
\* date, time and party size of the token the commit read, not the party size
\* the caller passed; when the commit returns the session's token is absent.
C7_RecordFromToken ==
    [][\A w \in Workers, i \in Slots :
         ( /\ calls[w][i].tool = "commit"
           /\ calls[w][i].pc = "got"
           /\ calls'[w][i].result = "Confirmed" )
         => /\ req'[w].reservation.status = "confirmed"
            /\ req'[w].reservation.date = calls[w][i].availability.date
            /\ req'[w].reservation.time = calls[w][i].availability.time
            /\ req'[w].reservation.party_size
                 = calls[w][i].availability.party_size
            /\ calls[w][i].party_size # calls[w][i].availability.party_size
                 => req'[w].reservation.party_size # calls[w][i].party_size
            /\ get_tool_context(tool_contexts', calls[w][i].sid, "availability")
                 = NoValue]_vars

\* a commit called with a party size other than the token's was confirmed
C7_Witness ==
    \E w \in Workers, i \in Slots :
        /\ calls[w][i].tool = "commit"
        /\ calls[w][i].result = "Confirmed"
        /\ calls[w][i].party_size # calls[w][i].availability.party_size
        /\ req[w].reservation.party_size = calls[w][i].availability.party_size
        /\ get_tool_context(tool_contexts, calls[w][i].sid, "availability")
             = NoValue

\* C8: when run_agent returns from a turn in which a commit was confirmed,
\* reservation_json is not None.
C8_ReservationReturned ==
    \A w \in Workers :
        ( /\ req[w].pc = "persist"
          /\ req[w].response.output = "answer"
          /\ req[w].reservation # NoReservation )
        => req[w].response.reservation_json # NoValue

\* C9: when an availability check that runs alone in its batch fails, the
\* session holds no token.
C9_FailedCheckLeavesNoToken ==
    [][\A w \in Workers, i \in Slots :
         ( /\ calls[w][i].tool = "check"
           /\ calls[w][i].pc = "start"
           /\ \A j \in Slots \ {i} : calls[w][j].pc = "none"
           /\ calls'[w][i].pc = "done"
           /\ calls'[w][i].result \in
                {"NotFound", "ReservationsNotAccepted", "UnparseableDate",
                 "UnparseableTime", "HoursNotAvailable", "ClosedAllDay",
                 "OutsideOperatingHours"} )
         => get_tool_context(tool_contexts', calls[w][i].sid, "availability")
              = NoValue]_vars

\* C10: an availability check that answers Available changes the store at key
\* 'availability' of the bound session's bucket and nowhere else; any other
\* availability check leaves the store as it was.
C10_CheckWritesOnce ==
    [][\A w \in Workers, i \in Slots :
         ( /\ calls[w][i].tool = "check"
           /\ calls[w][i].pc = "start"
           /\ calls'[w][i].pc = "done" )
         => IF calls'[w][i].result = "Available"
            THEN /\ calls[w][i].sid = req[w].thread_id
                 /\ DOMAIN tool_contexts' = DOMAIN tool_contexts \cup {req[w].thread_id}
                 /\ \A b \in DOMAIN tool_contexts \ {req[w].thread_id} :
                       tool_contexts'[b] = tool_contexts[b]
                 /\ DOMAIN tool_contexts'[req[w].thread_id] =
                       (IF req[w].thread_id \in DOMAIN tool_contexts
                        THEN DOMAIN tool_contexts[req[w].thread_id] ELSE {})
                         \cup {"availability"}
                 /\ \A k \in DOMAIN tool_contexts'[req[w].thread_id] \ {"availability"} :
                       tool_contexts'[req[w].thread_id][k]
                         = tool_contexts[req[w].thread_id][k]
                 /\ tool_contexts'[req[w].thread_id]["availability"] # NoValue
            ELSE tool_contexts' = tool_contexts]_vars

\* in one batch, a check answered Available and stored its token, and another
\* check failed or answered the open-now question
C10_Witness ==
    \E w \in Workers, i \in Slots, j \in Slots :
        /\ calls[w][i].tool = "check" /\ calls[w][i].result = "Available"
        /\ calls[w][j].tool = "check" /\ calls[w][j].pc = "done"
        /\ calls[w][j].result # "Available"
        /\ get_tool_context(tool_contexts, req[w].thread_id, "availability")
             = lastCheck[req[w].s]
        /\ lastCheck[req[w].s] # NoValue

\* C11: for an hours string "H:M-H:M" and a query time t, the hours check of
\* check_availability_tool and is_open_now answer open exactly when the hours
\* are not 0:00-0:00 and t lies in [open, close), taken around midnight when
\* close < open; the closing minute itself is closed.
C11_HoursRule ==
    (trial.f = "hours" /\ trial.done) =>
        LET o == trial.open[1] * 60 + trial.open[2]
            c == trial.close[1] * 60 + trial.close[2]
            t == trial.at[1] * 60 + trial.at[2]
            inside == /\ ~(o = 0 /\ c = 0)
                      /\ \/ c < o /\ (t >= o \/ t < c)
                         \/ c >= o /\ o <= t /\ t < c
        IN /\ (trial.check = "ok") <=> inside
           /\ trial.open_now <=> inside
           /\ (o = 0 /\ c = 0) => trial.check = "closed_all_day"
           /\ t = c => trial.check # "ok"

\* "22:00-2:00" was found open at 23:30
C11_Witness ==
    /\ trial.f = "hours" /\ trial.done
    /\ trial.day_hours = HoursStrMM(22, 0, 2, 0)
    /\ trial.at = <<23, 30>>
    /\ trial.check = "ok" /\ trial.open_now

\* C12: make_reservation_tool rejects a customer name exactly when, with the
\* surrounding whitespace removed, it is empty, is one of the placeholders
\* in any casing, or is shorter than 2 characters; a rejected name never gets
\* as far as the reservation, and any other name does.
C12_NameValidation ==
    (trial.f = "name" /\ trial.done) =>
        LET rejected == \/ trial.base = <<>>
                        \/ trial.base \in generic_names
                        \/ Len(trial.base) < 2
        IN /\ (trial.verdict # None) <=> rejected
           /\ trial.proceeds <=> ~rejected
           /\ trial.base = <<>> => trial.verdict = "NameEmpty"
           /\ trial.base \in generic_names => trial.verdict = "NamePlaceholder"

\* a placeholder typed in capitals with whitespace around it was rejected
C12_Witness ==
    /\ trial.f = "name" /\ trial.done
    /\ trial.customer_name = <<" ", "G", "U", "E", "S", "T", "\t">>
    /\ trial.verdict = "NamePlaceholder"
    /\ ~trial.proceeds

\* C13: for a restaurant whose RestaurantsReservations attribute is not
\* 'True', an availability check that passes a date or a time fails with
\* ReservationsNotAccepted, one that passes neither answers whether the
\* restaurant is open now, and neither of them writes a token.
C13_ReservationsNotAccepted ==
    ( /\ trial.f = "check" /\ trial.done
      /\ trial.lookup = "returns"
      /\ get_restaurant_by_name(trial.name) # <<>>
      /\ \/ "RestaurantsReservations"
              \notin DOMAIN get_restaurant_by_name(trial.name)[1].attributes
         \/ get_restaurant_by_name(trial.name)[1]
              .attributes["RestaurantsReservations"] # "True" )
    => /\ (trial.date # None \/ trial.time # NoText)
            => trial.result = "ReservationsNotAccepted"
       /\ (trial.date = None /\ trial.time = NoText)
            => trial.result \in {"OpenNow", "ClosedNow"}
       /\ tool_contexts = [b \in {} |-> EmptyDict]

\* a check of a walk-in restaurant for today at 7pm was refused
C13_Witness ==
    /\ trial.f = "check" /\ trial.done
    /\ trial.name = "Corner Deli" /\ trial.lookup = "returns"
    /\ trial.date = "today" /\ trial.time = <<"7", "p", "m">>
    /\ trial.result = "ReservationsNotAccepted"
    /\ get_tool_context(tool_contexts, InitialThread("A"), "availability")
         = NoValue

\* C14: a store operation made with no session bound changes nothing: the
\* store never holds a bucket for the unbound context.
C14_UnboundSetIsNoOp ==
    None \notin DOMAIN tool_contexts

\* C15: when run_agent has restored the snapshot it was handed and bound the
\* session, the session's bucket holds the token of the snapshot.
C15_SnapshotRestored ==
    [][\A w \in Workers, s \in Sessions :
         ( /\ req[w].pc = "idle"
           /\ req'[w].pc = "llm"
           /\ req'[w].s = s
           /\ "availability" \in DOMAIN session[s].tool_context
           /\ session[s].tool_context["availability"] # NoValue )
         => get_tool_context(tool_contexts', session[s].thread_id, "availability")
              = session[s].tool_context["availability"]]_vars

\* C16: route_request returns 'restaurant' or 'support', the label of the
\* classifier when it gave one; when the classification call raises it
\* returns 'restaurant', and chat() runs the discovery workflow.
C16_RoutingDefault ==
    (trial.f = "route" /\ trial.done) =>
        /\ trial.label \in {"restaurant", "support"}
        /\ trial.answer \in {"restaurant", "support"}
             => trial.label = trial.answer
        /\ trial.answer \in {"timeout", "malformed"}
             => trial.label = "restaurant" /\ trial.workflow = "discovery"

\* the classification call timed out and the turn went to discovery
C16_Witness ==
    /\ trial.f = "route" /\ trial.done
    /\ trial.answer = "timeout"
    /\ trial.label = "restaurant"
    /\ trial.workflow = "discovery"

\* C17: no two successful commits, in the same or in different sessions,
\* produce the same reservation_id: the id a commit issues differs from the
\* id of every reservation confirmed before it and still held by a turn.
C17_UniqueReservationIds ==
    [][\A w \in Workers, i \in Slots :
         ( /\ calls[w][i].tool = "commit"
           /\ calls[w][i].pc = "got"
           /\ calls'[w][i].result = "Confirmed" )
         => \A v \in Workers :
              req[v].reservation # NoReservation
              => req'[w].reservation.reservation_id
                   # req[v].reservation.reservation_id]_vars

\* C18: a session's reservation list never holds two records with the same
\* reservation_id; a returned reservation whose id is already in the list
\* leaves the list as it was, and one whose id is new is appended.
C18_NoDuplicateReservation ==
    /\ \A s \in Sessions :
         \A j, k \in 1..Len(session[s].reservations) :
            j # k => session[s].reservations[j].reservation_id
                       # session[s].reservations[k].reservation_id
    /\ (trial.f = "store" /\ trial.done /\ trial.reservation_json # NoValue) =>
         IF \E k \in 1..Len(trial.reservations) :
               trial.reservations[k].reservation_id
                 = trial.reservation_json.reservation_id
         THEN session["A"].reservations = trial.reservations
         ELSE session["A"].reservations
                = Append(trial.reservations, trial.reservation_json)

\* a reservation whose id the list already holds was returned again, with
\* other details, and the list still holds one record of that id
C18_Witness ==
    /\ trial.f = "store" /\ trial.done
    /\ trial.reservation_json # NoValue
    /\ Len(trial.reservations) = 2
    /\ trial.reservations[2].reservation_id
         = trial.reservation_json.reservation_id
    /\ trial.reservations[2] # trial.reservation_json
    /\ session["A"].reservations = trial.reservations

\* the availability entry of a persisted snapshot, None when it has none
snapshot_availability(tool_context) ==
    IF "availability" \in DOMAIN tool_context
    THEN tool_context["availability"] ELSE NoValue

\* C19: a turn that ends in an unexpected failure leaves no partial state:
\* when chat() finishes such a turn, the session's availability token in the
\* store, the availability of the persisted snapshot and the reservation
\* list are what they were before the turn.
C19_FailedTurnLeavesNoTrace ==
    [][\A w \in Workers :
         ( /\ req[w].pc = "persist"
           /\ req[w].response.output = "apology"
           /\ req'[w].pc = "idle" )
         => /\ get_tool_context(tool_contexts', req[w].thread_id, "availability")
                 = req[w].before
            /\ snapshot_availability(session'[req[w].s].tool_context)
                 = snapshot_availability(session[req[w].s].tool_context)
            /\ session'[req[w].s].reservations
                 = session[req[w].s].reservations]_vars

\* C20: check_availability_tool and make_reservation_tool never raise to the
\* workflow: a call that ends hands back a text, never an exception, and a
\* call that ends otherwise than with Available or Confirmed, a malformed
\* hours string and a failed lookup included, leaves the store as it was.
C20_ToolsReturnErrorText ==
    [][\A w \in Workers, i \in Slots :
         ( /\ calls[w][i].pc \in {"start", "got"}
           /\ calls'[w][i].pc = "done" )
         => /\ calls'[w][i].result \notin Exceptions
            /\ calls'[w][i].result \notin {"Available", "Confirmed"}
                 => tool_contexts' = tool_contexts]_vars

\* a commit whose lookup raised, and a check of a restaurant whose hours
\* string is malformed, each ended with the error text while the session's
\* token stayed in the store
C20_Witness ==
    \E w \in Workers :
       /\ calls[w][1].tool = "check" /\ calls[w][1].pc = "done"
       /\ calls[w][1].result = error_text("ValueError")
       /\ calls[w][2].tool = "commit" /\ calls[w][2].pc = "done"
       /\ calls[w][2].result = error_text("LookupError")
       /\ get_tool_context(tool_contexts, req[w].thread_id, "availability")
            # NoValue

\* "HH:MM" with the hour in 0..23 and the minute in 0..59
valid_time_of_day(text) ==
    /\ Len(text) = 5 /\ text[3] = ":"
    /\ IntOk(SubSeq(text, 1, 2)) /\ IntOk(SubSeq(text, 4, 5))
    /\ int(SubSeq(text, 1, 2)) <= 23
    /\ int(SubSeq(text, 4, 5)) <= 59

\* C21: every availability token in the store has a time that is a valid
\* 24-hour time of day and a party_size that is a positive integer, whatever
\* time expression and party_size the check was given.
C21_TokenWellFormed ==
    \A b \in DOMAIN tool_contexts :
       ("availability" \in DOMAIN tool_contexts[b]
          /\ tool_contexts[b]["availability"] # NoValue)
       => /\ valid_time_of_day(tool_contexts[b]["availability"].time)
          /\ tool_contexts[b]["availability"].party_size > 0

\* C22: while two availability checks of one session run concurrently, a
\* get of the session returns nothing or the whole token of a check that has
\* completed; when one successful check has completed the get returns its
\* token, and when both have, the token of one of the two.
C22_LastWriterWins ==
    trial.f = "checks" =>
      LET token == get_tool_context(tool_contexts, InitialThread("A"),
                                    "availability")
          written == {concurrent_check(trial, i).token :
                        i \in {j \in {1, 2} :
                                 trial.done[j]
                                 /\ concurrent_check(trial, j).stored}}
      IN IF written = {} THEN token = NoValue ELSE token \in written

\* two checks that differ in date, time and party size both succeeded, and
\* the session holds the token of the second of them
C22_Witness ==
    /\ trial.f = "checks"
    /\ trial.done = <<TRUE, TRUE>>
    /\ trial.result = <<"Available", "Available">>
    /\ concurrent_check(trial, 1).token.date # concurrent_check(trial, 2).token.date
    /\ concurrent_check(trial, 1).token.time # concurrent_check(trial, 2).token.time
    /\ concurrent_check(trial, 1).token.party_size
         # concurrent_check(trial, 2).token.party_size
    /\ get_tool_context(tool_contexts, InitialThread("A"), "availability")
         = concurrent_check(trial, 2).token

\* C23: a commit whose token date is earlier than the current date fails
\* with StaleAvailability, produces no reservation and leaves the token in
\* place; and a confirmed reservation never has a date earlier than the day
\* it was created.
C23_StaleTokenRejected ==
    [][\A w \in Workers, i \in Slots :
         ( /\ calls[w][i].tool = "commit"
           /\ calls[w][i].pc = "got"
           /\ calls'[w][i].pc = "done" )
         => /\ strptime_date(calls[w][i].availability.date) < today
                 => /\ calls'[w][i].result = "StaleAvailability"
                    /\ req'[w].reservation = req[w].reservation
                    /\ tool_contexts' = tool_contexts
            /\ calls'[w][i].result = "Confirmed"
                 => strptime_date(req'[w].reservation.date)
                      >= req'[w].reservation.created_at]_vars

\* C24: a commit rejected for its customer name, for a restaurant that is
\* not found or for one that does not accept reservations leaves the store
\* as it was, and a commit whose arguments pass goes on with the token the
\* store holds, with no new availability check.
C24_RejectionKeepsToken ==
    [][\A w \in Workers, i \in Slots :
         ( /\ calls[w][i].tool = "commit"
           /\ calls[w][i].pc = "start"
           /\ calls'[w][i].pc # "start" )
         => /\ calls'[w][i].result \in
                   {"NameEmpty", "NamePlaceholder", "NameTooShort", "NotFound",
                    "ReservationsNotAccepted"}
                 => tool_contexts' = tool_contexts
            /\ calls'[w][i].pc = "got"
                 => /\ calls'[w][i].availability # NoValue
                    /\ calls'[w][i].availability
                         = get_tool_context(tool_contexts, calls[w][i].sid,
                                            "availability")
                    /\ tool_contexts' = tool_contexts]_vars

\* after one successful check, a commit was rejected for a placeholder name
\* and another commit of the turn was confirmed with the token of that check
C24_Witness ==
    \E w \in Workers :
       /\ calls[w][1].tool = "commit" /\ calls[w][1].pc = "done"
       /\ calls[w][1].result = "NamePlaceholder"
       /\ calls[w][2].tool = "commit" /\ calls[w][2].result = "Confirmed"
       /\ calls[w][2].availability = lastCheck[req[w].s]
       /\ credit[req[w].s] = 0
       /\ ncalls = 3

\* C25: make_reservation_tool reports the first failing check in the order
\* empty name, placeholder name, short name, restaurant not found,
\* reservations not accepted, no token, token of a past date; and what it
\* answers when a check before the token fails does not depend on the token.
C25_CheckOrder ==
    (trial.f = "commit" /\ trial.done /\ trial.lookup = "returns") =>
      LET stripped == strip(trial.customer_name)
          rows == {i \in 1..Len(Restaurants) :
                     Restaurants[i].name = trial.name}
          accepting ==
              \E i \in rows :
                 /\ "RestaurantsReservations" \in DOMAIN Restaurants[i].attributes
                 /\ Restaurants[i].attributes["RestaurantsReservations"] = "True"
          expected ==
              IF stripped = <<>> THEN "NameEmpty"
              ELSE IF lower(stripped) \in generic_names THEN "NamePlaceholder"
              ELSE IF Len(stripped) < 2 THEN "NameTooShort"
              ELSE IF rows = {} THEN "NotFound"
              ELSE IF ~accepting THEN "ReservationsNotAccepted"
              ELSE IF trial.availability = NoValue THEN "NoAvailabilityChecked"
              ELSE IF strptime_date(trial.availability.date) < trial.now_day
              THEN "StaleAvailability"
              ELSE "Confirmed"
      IN /\ trial.result = expected
         /\ trial.result \in {"NameEmpty", "NamePlaceholder", "NameTooShort",
                               "NotFound", "ReservationsNotAccepted"}
              => \A t \in CommitTokens :
                    make_reservation_verdict(trial.customer_name, trial.name, t,
                                             trial.lookup, trial.now_day)
                      = trial.result

\* a commit with a placeholder name, for a restaurant that is not found, in
\* a session without a token, was rejected for the name
C25_Witness ==
    /\ trial.f = "commit" /\ trial.done /\ trial.lookup = "returns"
    /\ trial.customer_name = <<"G", "u", "e", "s", "t">>
    /\ trial.name = "Nowhere"
    /\ trial.availability = NoValue
    /\ trial.result = "NamePlaceholder"

\* C26: a confirmed reservation names the restaurant recorded in the token
\* the commit consumed.
C26_ReservationAtTokenRestaurant ==
    [][\A w \in Workers, i \in Slots :
         ( /\ calls[w][i].tool = "commit"
           /\ calls[w][i].pc = "got"
           /\ calls'[w][i].result = "Confirmed" )
         => req'[w].reservation.restaurant_name
              = calls[w][i].availability.restaurant]_vars

\* C27: when run_agent starts a turn of a session, its restore step changes
\* no bucket but the session's own: every other bucket of the store, that of
\* another session and that of no session included, is as it was.
C27_RestoreIntoOwnBucket ==
    [][\A w \in Workers, s \in Sessions :
         ( /\ req[w].pc = "idle"
           /\ req'[w].pc = "llm"
           /\ req'[w].s = s )
         => \A b \in (DOMAIN tool_contexts' \cup DOMAIN tool_contexts)
                        \ {session[s].thread_id} :
               /\ b \in DOMAIN tool_contexts
               /\ b \in DOMAIN tool_contexts'
               /\ tool_contexts'[b] = tool_contexts[b]]_vars

\* C28: the clear of a confirmed commit removes only the token the commit
\* read: when a check of the same batch has stored another token since the
\* read, that token is still in the store after the commit.
C28_ClearOnlyTokenRead ==
    [][\A w \in Workers, i \in Slots :
         ( /\ calls[w][i].tool = "commit"
           /\ calls[w][i].pc = "got"
           /\ calls'[w][i].result = "Confirmed"
           /\ get_tool_context(tool_contexts, calls[w][i].sid, "availability")
                # calls[w][i].availability )
         => get_tool_context(tool_contexts', calls[w][i].sid, "availability")
              = get_tool_context(tool_contexts, calls[w][i].sid,
                                 "availability")]_vars

\* C29: a turn is routed once, to one workflow, before any tool runs: a
\* handler goes from idle into the support workflow or into the discovery
\* workflow and stays in it until the turn ends.  A turn routed to support
\* runs no availability check and no commit and leaves the persisted
\* snapshot as it was; a turn routed to discovery changes the reservation
\* list only by appending the reservation it returns.
C29_OneWorkflowPerTurn ==
    [][\A w \in Workers :
         /\ req[w].pc = "idle" => req'[w].pc \in {"idle", "support", "llm"}
         /\ req[w].pc = "support" => req'[w].pc \in {"support", "idle"}
         /\ req[w].pc \in {"llm", "persist"}
              => req'[w].pc \in {"llm", "persist", "idle"}
         /\ req[w].pc = "idle" => \A i \in Slots : calls'[w][i].pc = "none"
         /\ req[w].pc = "support"
              => /\ \A i \in Slots : calls'[w][i].pc = "none"
                 /\ session'[req[w].s].tool_context
                      = session[req[w].s].tool_context
                 /\ tool_contexts' = tool_contexts
         /\ req[w].pc \in {"llm", "persist"}
              => \/ session'[req[w].s].reservations
                      = session[req[w].s].reservations
                 \/ /\ req[w].response.reservation_json # NoValue
                    /\ session'[req[w].s].reservations
                         = Append(session[req[w].s].reservations,
                                  req[w].response.reservation_json)]_vars

\* a session that holds a token and its snapshot, from a discovery turn, is
\* in a turn routed to support
C29_Witness ==
    \E w \in Workers :
       /\ req[w].pc = "support"
       /\ snapshot_availability(session[req[w].s].tool_context) # NoValue
       /\ get_tool_context(tool_contexts, req[w].thread_id, "availability")
            # NoValue
       /\ \A i \in Slots : calls[w][i].pc = "none"

\* C30: a reset leaves the session with a thread id that names no bucket of
\* the store, an empty reservation list and an empty snapshot, and as long as
\* no availability check has succeeded since the reset, a commit in a turn of
\* the reset session finds no token to read.
C30_ResetStartsFromIdle ==
    [][/\ \A s \in Sessions :
            ( /\ session[s].thread_id = InitialThread(s)
              /\ session'[s].thread_id # InitialThread(s) )
            => /\ session'[s].thread_id \notin DOMAIN tool_contexts'
               /\ session'[s].reservations = <<>>
               /\ session'[s].tool_context = EmptyDict
       /\ \A w \in Workers, i \in Slots :
            ( /\ calls[w][i].tool = "commit"
              /\ calls[w][i].pc = "start"
              /\ calls'[w][i].pc # "start"
              /\ session[req[w].s].thread_id = ResetThread(req[w].s)
              /\ \A x \in Sessions : lastCheck[x] = NoValue )
            => calls'[w][i].pc # "got"]_vars

\* C31: for every well-formed hours string and every time of day, the hours
\* check inlined in check_availability_tool and is_open_now give the same
\* open/closed answer, and neither fails to read the string: both say closed
\* for hours 0:00-0:00, and both follow the hours around midnight when the
\* closing time is before the opening time.
C31_HoursChecksAgree ==
    (trial.f = "hours" /\ trial.done) =>
        /\ trial.check \in {"ok", "outside", "closed_all_day"}
        /\ (trial.check = "ok") <=> trial.open_now
        /\ trial.check = "closed_all_day" => ~trial.open_now

\* hours "22:0-2:0" asked about at 2:00, the closing minute after midnight:
\* both checks were applied and both answered closed
C31_Witness ==
    /\ trial.f = "hours" /\ trial.done
    /\ trial.day_hours = HoursStr(22, 0, 2, 0)
    /\ trial.at = <<2, 0>>
    /\ trial.check = "outside" /\ ~trial.open_now
====
